---- MODULE Spec2Model ----
(***************************************************************************)
(* Model of src/components/LungsModel3D.tsx: the LungsModel3D component    *)
(* (derived fill level, percentage, status message, overlay particles),    *)
(* its child LungsModel (GLB scene, material effect, 3D particles,         *)
(* breathing animation) and the parts of React / three.js they rely on.    *)
(***************************************************************************)
EXTENDS Integers, Naturals, Sequences, FiniteSets, TLC

(***************************************************************************)
(* JavaScript numbers are IEEE-754 binary64.  A positive double is kept as *)
(* [m, lsb]: m is the 53-bit significand M in [2^52, 2^53), held as limbs  *)
(* m[0..4] of LimbBits bits (m[4] is the leading bit), and the value is    *)
(* M * 2^(-lsb).  TLC integers are 32 bits wide, hence the limbs.          *)
(***************************************************************************)
MantBits == 53
LimbBits == 13
TopLimb == (MantBits - 1) \div LimbBits
LimbBase == 2 ^ LimbBits

\* M + 1; m[TopLimb] = 2 when the significand overflows to 2^53
IncLimbs(m) ==
  LET c[i \in 0..TopLimb] ==      \* carry into limb i
        IF i = 0 THEN 1
        ELSE IF m[i-1] + c[i-1] >= LimbBase THEN 1 ELSE 0
  IN [i \in 0..TopLimb |->
        IF i = TopLimb THEN m[i] + c[i] ELSE (m[i] + c[i]) % LimbBase]

\* round to nearest, ties to even: m is the truncated significand, "above"
\* and "tie" tell whether the dropped part is above or exactly one half unit
RoundNearestEven(m, lsb, above, tie) ==
  LET roundUp == above \/ (tie /\ m[0] % 2 = 1)
      inc == IncLimbs(m)
  IN IF ~roundUp THEN [m |-> m, lsb |-> lsb]
     ELSE IF inc[TopLimb] = 1 THEN [m |-> inc, lsb |-> lsb]
     ELSE [m |-> [i \in 0..TopLimb |-> IF i = TopLimb THEN 1 ELSE 0],
           lsb |-> lsb - 1]

\* the double nearest a / d, for integers a, d > 0 with d <= a * 2^9 and
\* a < d * 2^9  (JavaScript a / d): long division, one limb at a time
FDiv(a, d) ==
  LET \* a * 2^p / d lies in [1, 2)
      p == CHOOSE k \in -9..9 :
             IF k >= 0 THEN a * (2 ^ k) >= d /\ a * (2 ^ k) < 2 * d
             ELSE a >= d * (2 ^ (-k)) /\ a < 2 * d * (2 ^ (-k))
      num == IF p >= 0 THEN a * (2 ^ p) ELSE a
      den == IF p >= 0 THEN d ELSE d * (2 ^ (-p))
      \* rem[i]: remainder once the leading bit and i limbs are produced
      rem[i \in 0..TopLimb] ==
        IF i = 0 THEN num % den ELSE (rem[i-1] * LimbBase) % den
      m == [i \in 0..TopLimb |->
              IF i = TopLimb THEN num \div den
              ELSE (rem[TopLimb - 1 - i] * LimbBase) \div den]
      last == rem[TopLimb]
  IN RoundNearestEven(m, p + MantBits - 1, 2 * last > den, 2 * last = den)

\* the double nearest x * k, for a positive double x and an integer 0 < k < 2^17
\* (JavaScript x * k)
FMulInt(x, k) ==
  LET c[i \in 0..TopLimb] ==      \* carry into limb i of the exact product
        IF i = 0 THEN 0 ELSE (x.m[i-1] * k + c[i-1]) \div LimbBase
      prod == [i \in 0..TopLimb |->
                 IF i = TopLimb THEN x.m[i] * k + c[i]
                 ELSE (x.m[i] * k + c[i]) % LimbBase]
      \* the product has MantBits + d bits: d low bits are dropped
      d == CHOOSE k2 \in 0..17 : prod[TopLimb] \div (2 ^ k2) = 1
      dropped == prod[0] % (2 ^ d)
      \* requires d < LimbBits, which 0 < k < 2^(LimbBits-1) guarantees
      m == [i \in 0..TopLimb |->
              IF i = TopLimb THEN 1
              ELSE (prod[i] \div (2 ^ d))
                   + (prod[i+1] % (2 ^ d)) * (2 ^ (LimbBits - d))]
  IN IF d = 0 THEN [m |-> prod, lsb |-> x.lsb]
     ELSE RoundNearestEven(m, x.lsb - d,
                           2 * dropped > 2 ^ d, 2 * dropped = 2 ^ d)

\* bit j of the significand (bit 0 is the least significant)
BitAt(x, j) == (x.m[j \div LimbBits] \div (2 ^ (j % LimbBits))) % 2

\* whether M mod 2^j # 0, for 0 <= j <= MantBits
LowBitsNonZero(x, j) ==
  \/ \E i \in 0..TopLimb : i < j \div LimbBits /\ x.m[i] # 0
  \/ j \div LimbBits <= TopLimb /\ x.m[j \div LimbBits] % (2 ^ (j % LimbBits)) # 0

\* integer part of a positive double below 2^30
IntPart(x) ==
  IF x.lsb >= MantBits THEN 0
  ELSE LET w == x.lsb \div LimbBits
           s == x.lsb % LimbBits
           hi[i \in w..TopLimb] ==
             IF i = w THEN x.m[i] \div (2 ^ s)
             ELSE hi[i-1] + x.m[i] * (2 ^ (LimbBits * (i - w) - s))
       IN hi[TopLimb]

\* the fraction of a positive double: is its 1/2 bit set, is anything below it
FracHalf(x) == x.lsb >= 1 /\ x.lsb <= MantBits /\ BitAt(x, x.lsb - 1) = 1
FracBelowHalf(x) ==
  IF x.lsb > MantBits THEN TRUE
  ELSE x.lsb >= 2 /\ LowBitsNonZero(x, x.lsb - 1)

\* Math.floor of sign * x
Math_floor(sign, x) ==
  IF sign >= 0 THEN IntPart(x)
  ELSE IF FracHalf(x) \/ FracBelowHalf(x) THEN -(IntPart(x) + 1) ELSE -IntPart(x)

\* Math.round of sign * x: nearest integer, ties towards +infinity
Math_round(sign, x) ==
  IF sign >= 0 THEN IntPart(x) + (IF FracHalf(x) THEN 1 ELSE 0)
  ELSE IF FracHalf(x) /\ FracBelowHalf(x) THEN -(IntPart(x) + 1) ELSE -IntPart(x)

\* Math.sin(a / 10), in units of 10^-5, by its Taylor series (terms are kept
\* in units of 10^-5; the series is cut once the terms have vanished)
SinTerms == 14
Math_sin(a) ==
  LET term[k \in 0..SinTerms] ==
        IF k = 0 THEN a * 10000
        ELSE (0 - term[k-1] * a * a) \div (100 * (2 * k) * (2 * k + 1))
      sum[k \in 0..SinTerms] ==
        IF k = 0 THEN term[0] ELSE sum[k-1] + term[k]
  IN sum[SinTerms]

(***************************************************************************)
(* Bounds of the model.                                                    *)
(***************************************************************************)
MaxCount == 201      \* pledge counts 0..MaxCount, and BigCount
BigCount == 500
MaxNeg == 3          \* out-of-contract counts -MaxNeg..-1
CountStep == 50      \* the scene specifications use counts k * CountStep
CountSteps == 5
RandLevels == 2      \* Math.random() returns r / RandLevels, r < RandLevels
MaxTime == 6         \* elapsed times 0..MaxTime seconds
NumMeshes == 2       \* meshes of the GLB scene
MaxStep == 1         \* pledge counts change by at most MaxStep, or to a landmark

Counts == (-MaxNeg..MaxCount) \cup {BigCount}
SceneCounts == {k * CountStep : k \in 0..CountSteps}
MultiCounts == {c \in SceneCounts : c % (2 * CountStep) = 0}
Times == 0..MaxTime
\* a run of Math.random(): call number j of run "tape" returns
\* ((tape + j) mod RandLevels) / RandLevels
Tapes == 0..(RandLevels - 1)
Math_random(tape, j) == (tape + j) % RandLevels

Instances == {"A", "B"}
\* an absent value is the empty sequence, a present value v is <<v>>
None == << >>
Some(v) == <<v>>

(***************************************************************************)
(* LungsModel3D: derived state.  fillLevel is a double; it is identified   *)
(* by the integer n such that it is the double nearest n / GOAL.           *)
(***************************************************************************)
GOAL == 200

\* variant without the cap at 1: pledgeCount / 200
fillLevelOf_NoCap(count) == count

\* Math.min(pledgeCount / 200, 1)
fillLevelOf(count) == IF count < GOAL THEN count ELSE GOAL

\* the double fillLevel * k as [sign, x]; exact when fillLevel is 0 or 1
Sign(n) == IF n < 0 THEN -1 ELSE 1
Abs(n) == IF n < 0 THEN -n ELSE n

\* Math.round(fillLevel * k)
RoundTimes(fill, k) ==
  IF fill = 0 THEN 0
  ELSE IF fill = GOAL THEN k
  ELSE Math_round(Sign(fill), FMulInt(FDiv(Abs(fill), GOAL), k))

\* Math.floor(fillLevel * k)
FloorTimes(fill, k) ==
  IF fill = 0 THEN 0
  ELSE IF fill = GOAL THEN k
  ELSE Math_floor(Sign(fill), FMulInt(FDiv(Abs(fill), GOAL), k))

\* the fill levels of the pledge counts of the model, and the three derived
\* integers of each, computed once
FillLevels == {fillLevelOf(c) : c \in Counts}
Round100 == [fill \in FillLevels |-> RoundTimes(fill, 100)]
Floor50 == [fill \in FillLevels |-> FloorTimes(fill, 50)]
Floor10 == [fill \in FillLevels |-> FloorTimes(fill, 10)]

\* Math.round(fillLevel * 100)
fillPercentageOf(fill) == Round100[fill]
\* Math.floor(fillLevel * 50), the length of the 3D particle array
particleCount3D(fill) == Floor50[fill]
\* Math.floor(fillLevel * 10), the length of the overlay particle array
particleCountOverlay(fill) == Floor10[fill]

\* Array.from({ length: n }): ToLength clamps a negative length to 0
ArrayLength(n) == IF n < 0 THEN 0 ELSE n

\* fillLevel < num / den and fillLevel >= num / den, for a threshold that is
\* an exact double (1/4, 1/2, 3/4, 1): rounding pledgeCount / 200 to a double
\* is monotonic, so the comparison is that of the rationals
Below(fill, num, den) == fill * den < num * GOAL
AtLeast(fill, num, den) == fill * den >= num * GOAL

\* variant whose lower bounds are strict (> in place of >=)
MessageShown_Strict(tier, fill) ==
  CASE tier = "starting"   -> Below(fill, 1, 4)
    [] tier = "growing"    -> fill * 4 > GOAL /\ Below(fill, 1, 2)
    [] tier = "halfway"    -> fill * 2 > GOAL /\ Below(fill, 3, 4)
    [] tier = "almostFull" -> fill * 4 > 3 * GOAL /\ Below(fill, 1, 1)
    [] tier = "complete"   -> fill > GOAL

\* the five conditional status messages, each rendered when its condition holds
Tiers == {"starting", "growing", "halfway", "almostFull", "complete"}
MessageShown(tier, fill) ==
  CASE tier = "starting"   -> Below(fill, 1, 4)
    [] tier = "growing"    -> AtLeast(fill, 1, 4) /\ Below(fill, 1, 2)
    [] tier = "halfway"    -> AtLeast(fill, 1, 2) /\ Below(fill, 3, 4)
    [] tier = "almostFull" -> AtLeast(fill, 3, 4) /\ Below(fill, 1, 1)
    [] tier = "complete"   -> AtLeast(fill, 1, 1)
StatusMessages(fill) == {tier \in Tiers : MessageShown(tier, fill)}

\* left and top of floating health particle i (0-based), in percent
ParticleLeft(i) == 10 + i * 8
ParticleTop(i) == 15 + i * 6

\* variant that draws the horizontal position at random
ParticleStyle_RandomLeft(i, tape) ==
  [left |-> 10 + Math_random(tape, i) * 8,
   top |-> ParticleTop(i),
   animationDelay |-> i * 5,
   animationDuration |-> 2 * RandLevels + Math_random(tape, i) * 2]

\* style of floating health particle i (0-based): left and top,
\* animationDelay in tenths of a second, animationDuration = 2 + random * 2
\* seconds in units of 1 / RandLevels seconds
ParticleStyle(i, tape) ==
  [left |-> ParticleLeft(i),
   top |-> ParticleTop(i),
   animationDelay |-> i * 5,
   animationDuration |-> 2 * RandLevels + Math_random(tape, i) * 2]

OverlayParticles(fill, tape) ==
  [k \in 1..ArrayLength(particleCountOverlay(fill)) |-> ParticleStyle(k - 1, tape)]

\* what LungsModel3D renders outside the canvas for a pledge count
Overlay(count, tape) ==
  LET fillLevel == fillLevelOf(count)
      fillPercentage == fillPercentageOf(fillLevel)
  IN [fillLevel |-> fillLevel,
      caption |-> [pledges |-> count, goal |-> GOAL, percent |-> fillPercentage],
      barWidth |-> fillPercentage,
      messages |-> StatusMessages(fillLevel),
      particles |-> OverlayParticles(fillLevel, tape)]

(***************************************************************************)
(* LungsModel: the GLB scene, its materials, the 3D particles, the         *)
(* material effect and the breathing animation.                            *)
(***************************************************************************)
\* nodes of the scene loaded from /realistic_human_lungs.glb: node 0 is the
\* root Group, nodes 1..NumMeshes are Mesh nodes, mesh k carrying material k
SceneNodes == 0..NumMeshes
IsMesh(node) == node >= 1
MaterialIds == 1..NumMeshes
SceneMaterial(node) == node

\* a material as GLTFLoader creates it (a MeshStandardMaterial: it has a
\* color, is opaque and not flagged transparent)
AssetColor == [h |-> 0, s |-> 0, l |-> 1000]
LoadedMaterial ==
  [hasColor |-> TRUE, color |-> AssetColor, opacity |-> 1000, transparent |-> FALSE]

\* new THREE.Color(`hsl(${120 + fillLevel * 60}, 70%, ${40 + fillLevel * 20}%)`)
\* hue in tenths of a degree, saturation and lightness in tenths of a percent
\* (fillLevel * 60 = 3 n / 10 and fillLevel * 20 = n / 10 for fillLevel = n / 200;
\* the colour components and the opacity are kept as these exact decimals,
\* which the doubles of the code equal to within one unit in the last place)
FillColor(fill) == [h |-> 1200 + 3 * fill, s |-> 700, l |-> 400 + fill]
\* 0.8 + fillLevel * 0.2, in thousandths
FillOpacity(fill) == 800 + fill

\* the body of scene.traverse in the effect, applied to one material
ApplyFill(material, fill) ==
  IF material.hasColor
  THEN [material EXCEPT !.color = FillColor(fill),
                        !.opacity = FillOpacity(fill),
                        !.transparent = TRUE]
  ELSE material

\* scene.traverse(...): every Mesh node with a material has it updated
TraverseScene(mats, fill) ==
  [m \in MaterialIds |->
     IF \E node \in SceneNodes : IsMesh(node) /\ SceneMaterial(node) = m
     THEN ApplyFill(mats[m], fill)
     ELSE mats[m]]

\* scene.clone(): Object3D.clone copies the node hierarchy; Mesh.copy keeps
\* the source's geometry and material by reference, so a clone is a map from
\* its Mesh nodes to the material ids of the cached scene
CloneScene == [node \in {n \in SceneNodes : IsMesh(n)} |-> SceneMaterial(node)]

\* position of 3D particle i (0-based), in units of 1 / (4 RandLevels):
\* [(random - 0.5) * 2, (random - 0.5) * 1.5, (random - 0.5) * 0.5]
\* first is the number of Math.random() calls made earlier in the render pass
Particle3D(i, fill, tape, first) ==
  LET r(j) == 2 * Math_random(tape, first + 3 * i + j) - RandLevels
  IN [x |-> 4 * r(0), y |-> 3 * r(1), z |-> r(2), emissiveIntensity |-> fill]

Particles3D(fill, tape, first) ==
  [k \in 1..ArrayLength(particleCount3D(fill)) |-> Particle3D(k - 1, fill, tape, first)]

\* what LungsModel renders: the group with the cloned scene and the particles
LungsModel(fill, tape, first) ==
  [primitive |-> CloneScene, particles |-> Particles3D(fill, tape, first)]

\* variant with fillLevel missing from the dependency list
DepsChanged_MountOnly(prevDeps, fill) == prevDeps = None

\* useEffect(..., [fillLevel, scene]): the effect runs after the first commit
\* and after a commit whose fillLevel is not Object.is-equal to the previous
DepsChanged(prevDeps, fill) == prevDeps # Some(fill)

\* variant that adds the breathing terms to the current transform
BreatheTransform_Accumulate(group, t) ==
  [scale |-> group.scale + Math_sin(5 * t), rotationY |-> group.rotationY + Math_sin(2 * t)]

\* the useFrame callback body: the group's transform for elapsed time t;
\* scale in units of 10^-6, rotation.y in units of 10^-6 rad
BreatheTransform(group, t) ==
  [scale |-> 1000000 + Math_sin(5 * t), rotationY |-> Math_sin(2 * t)]
IdentityTransform == [scale |-> 1000000, rotationY |-> 0]

(***************************************************************************)
(* State.                                                                  *)
(***************************************************************************)
VARIABLES
  pledgeCount,   \* per instance: the prop of the last render pass
  overlay,       \* per instance: the overlay of the last render pass
  passes,        \* per instance: consecutive render passes with this prop (<= 2)
  child,         \* per instance: what LungsModel rendered, None while suspended
  gltf,          \* state of the useGLTF cache entry of the model path
  materials,     \* the materials of the cached scene
  effectDeps,    \* per instance: fillLevel of the last committed LungsModel
  effectQueue,   \* per instance: fillLevel captured by a pending effect
  meshRef,       \* per instance: is meshRef.current set
  transform,     \* per instance: scale and rotation.y of the group
  elapsed,       \* per instance: elapsed time of the last frame callback
  frames         \* per instance: frame callbacks run so far (<= 2)

vars == <<pledgeCount, overlay, passes, child, gltf, materials, effectDeps,
          effectQueue, meshRef, transform, elapsed, frames>>

Init ==
  /\ pledgeCount = [i \in Instances |-> None]
  /\ overlay = [i \in Instances |-> None]
  /\ passes = [i \in Instances |-> 0]
  /\ child = [i \in Instances |-> None]
  /\ gltf = "idle"
  /\ materials = [m \in MaterialIds |-> LoadedMaterial]
  /\ effectDeps = [i \in Instances |-> None]
  /\ effectQueue = [i \in Instances |-> None]
  /\ meshRef = [i \in Instances |-> FALSE]
  /\ transform = [i \in Instances |-> IdentityTransform]
  /\ elapsed = [i \in Instances |-> None]
  /\ frames = [i \in Instances |-> 0]

\* LungsModel renders and commits with the given fillLevel: the group and its
\* ref are attached, and the effect is queued when its dependencies changed
CommitChild(i, fill, tape, first) ==
  /\ child' = [child EXCEPT ![i] = Some(LungsModel(fill, tape, first))]
  /\ meshRef' = [meshRef EXCEPT ![i] = TRUE]
  /\ effectDeps' = [effectDeps EXCEPT ![i] = Some(fill)]
  /\ effectQueue' = [effectQueue EXCEPT ![i] =
                       IF DepsChanged(effectDeps[i], fill) THEN Some(fill) ELSE None]

\* a render pass of instance i with prop pledgeCount = count: LungsModel3D
\* computes the overlay; LungsModel renders inside the canvas, or suspends in
\* useGLTF (starting the load) while the model is not in the cache.  React
\* runs the passive effects of the previous commit before a new render.
Render(i, count, tape) ==
  /\ effectQueue[i] = None
  /\ pledgeCount' = [pledgeCount EXCEPT ![i] = Some(count)]
  /\ overlay' = [overlay EXCEPT ![i] = Some(Overlay(count, tape))]
  /\ passes' = [passes EXCEPT ![i] =
                  IF pledgeCount[i] = Some(count) THEN 2 ELSE 1]
  /\ IF gltf = "loaded"
     THEN /\ CommitChild(i, fillLevelOf(count), tape,
                         ArrayLength(particleCountOverlay(fillLevelOf(count))))
          /\ UNCHANGED gltf
     ELSE /\ gltf' = "loading"
          /\ UNCHANGED <<child, meshRef, effectDeps, effectQueue>>
  /\ UNCHANGED <<materials, transform, elapsed, frames>>

\* the fetch of the GLB file completes: the cache entry holds the scene
LoadComplete ==
  /\ gltf = "loading"
  /\ gltf' = "loaded"
  /\ UNCHANGED <<pledgeCount, overlay, passes, child, materials, effectDeps,
                 effectQueue, meshRef, transform, elapsed, frames>>

\* React retries a LungsModel that suspended, with the props of the last pass
RetrySuspended(i, tape) ==
  /\ gltf = "loaded"
  /\ overlay[i] # None
  /\ child[i] = None
  /\ CommitChild(i, overlay[i][1].fillLevel, tape, 0)
  /\ UNCHANGED <<pledgeCount, overlay, passes, gltf, materials, transform,
                 elapsed, frames>>

\* the queued effect of instance i runs on the cached scene
RunEffect(i) ==
  /\ effectQueue[i] # None
  /\ materials' = TraverseScene(materials, effectQueue[i][1])
  /\ effectQueue' = [effectQueue EXCEPT ![i] = None]
  /\ UNCHANGED <<pledgeCount, overlay, passes, child, gltf, effectDeps,
                 meshRef, transform, elapsed, frames>>

\* the host engine calls the useFrame callback of a mounted LungsModel
Frame(i, t) ==
  /\ child[i] # None
  /\ elapsed' = [elapsed EXCEPT ![i] = Some(t)]
  /\ frames' = [frames EXCEPT ![i] = IF frames[i] = 0 THEN 1 ELSE 2]
  /\ transform' = [transform EXCEPT ![i] =
                     IF meshRef[i] THEN BreatheTransform(transform[i], t)
                     ELSE transform[i]]
  /\ UNCHANGED <<pledgeCount, overlay, passes, child, gltf, materials,
                 effectDeps, effectQueue, meshRef>>

\* one mounted instance, scene-sized set of pledge counts
Next ==
  \/ \E c \in SceneCounts, tape \in Tapes : Render("A", c, tape)
  \/ LoadComplete
  \/ \E tape \in Tapes : RetrySuspended("A", tape)
  \/ RunEffect("A")
  \/ \E t \in Times : Frame("A", t)
Spec == Init /\ [][Next]_vars

\* the pledge counts the parent may pass next: any count on mount; afterwards
\* the same count, a count at most MaxStep away, or one of the landmarks
CountChoices(i) ==
  IF pledgeCount[i] = None THEN Counts
  ELSE {c \in Counts : \/ c - pledgeCount[i][1] \in (0 - MaxStep)..MaxStep
                       \/ c \in SceneCounts \cup {BigCount}}

\* one mounted instance, every pledge count, no animation frames
NextOverlay ==
  \/ \E c \in CountChoices("A"), tape \in Tapes : Render("A", c, tape)
  \/ LoadComplete
  \/ \E tape \in Tapes : RetrySuspended("A", tape)
  \/ RunEffect("A")
SpecOverlay == Init /\ [][NextOverlay]_vars

\* two instances mounted at the same time
NextMulti ==
  \/ \E i \in Instances, c \in MultiCounts, tape \in Tapes : Render(i, c, tape)
  \/ LoadComplete
  \/ \E i \in Instances, tape \in Tapes : RetrySuspended(i, tape)
  \/ \E i \in Instances : RunEffect(i)
SpecMulti == Init /\ [][NextMulti]_vars

(***************************************************************************)
(* Properties.                                                             *)
(***************************************************************************)
Rendered(i) == overlay[i] # None
Count(i) == pledgeCount[i][1]
View(i) == overlay[i][1]
Mounted(i) == child[i] # None
MinOf(a, b) == IF a < b THEN a ELSE b

\* the materials instance i displays: those its cloned scene refers to
Displayed(i) == {child[i][1].primitive[node] : node \in DOMAIN child[i][1].primitive}
ShowsFill(i, fill) ==
  \A m \in Displayed(i) :
    /\ materials[m].color = [h |-> 1200 + 3 * fill, s |-> 700, l |-> 400 + fill]
    /\ materials[m].opacity = 800 + fill
    /\ materials[m].transparent

\* the value and the monotonicity part of C1
C1_RatioValue(i) ==
  (Rendered(i) /\ Count(i) >= 0) =>
    /\ View(i).fillLevel \in 0..200
    /\ View(i).fillLevel = MinOf(Count(i), 200)
    /\ Count(i) >= 200 => View(i).fillLevel = 200
C1_RatioMonotone(i) ==
  (Rendered(i) /\ Count(i) >= 0 /\ Count(i)' >= Count(i))
    => View(i)'.fillLevel >= View(i).fillLevel

\* C1: for every pledge count >= 0 the ratio is min(count / 200, 1): it lies
\* in [0, 1], it is 1 for every count >= 200, and a render pass with a count
\* at least as large never yields a smaller ratio.
C1_Ratio ==
  /\ [](\A i \in Instances : C1_RatioValue(i))
  /\ [][\A i \in Instances : C1_RatioMonotone(i)]_vars
C1_Witness ==
  /\ Rendered("A") /\ passes["A"] = 1
  /\ Count("A") > 200 /\ View("A").fillLevel = 200

\* C2: for every pledge count >= 0 the percentage of the caption and of the
\* bar width is round(ratio * 100), an integer in [0, 100], 0 for count 0 and
\* 100 for every count >= 200.  (round(n / 2) = (n + 1) div 2, ties upwards.)
C2_Percentage ==
  \A i \in Instances :
    (Rendered(i) /\ Count(i) >= 0) =>
      /\ View(i).caption.percent = (MinOf(Count(i), 200) + 1) \div 2
      /\ View(i).barWidth = View(i).caption.percent
      /\ View(i).caption.percent \in 0..100
      /\ Count(i) = 0 => View(i).caption.percent = 0
      /\ Count(i) >= 200 => View(i).caption.percent = 100

\* the tier of min(count / 200, 1) by the step function of the specification
TierOfCount(count) ==
  IF 4 * count < 200 THEN "starting"
  ELSE IF 2 * count < 200 THEN "growing"
  ELSE IF 4 * count < 3 * 200 THEN "halfway"
  ELSE IF count < 200 THEN "almostFull"
  ELSE "complete"

\* C3: for every pledge count >= 0 exactly one status message is rendered,
\* that of the tier of the ratio: below 1/4 starting, below 1/2 growing,
\* below 3/4 halfway, below 1 almost-full, otherwise complete.
C3_OneMessage ==
  \A i \in Instances :
    (Rendered(i) /\ Count(i) >= 0) =>
      /\ View(i).messages = {TierOfCount(Count(i))}
      /\ Count(i) = 0 => View(i).messages = {"starting"}
      /\ Count(i) = 50 => View(i).messages = {"growing"}
      /\ Count(i) = 100 => View(i).messages = {"halfway"}
      /\ Count(i) = 150 => View(i).messages = {"almostFull"}
      /\ Count(i) = 200 => View(i).messages = {"complete"}
      /\ Count(i) = 500 => View(i).messages = {"complete"}
C3_Witness ==
  Rendered("A") /\ Count("A") = 150 /\ View("A").messages = {"almostFull"}

\* the value and the monotonicity part of C4
C4_CountsValue(i) ==
  (Rendered(i) /\ Count(i) >= 0) =>
    /\ Len(View(i).particles) = MinOf(Count(i), 200) \div 20
    /\ Mounted(i) => Len(child[i][1].particles) = MinOf(Count(i), 200) \div 4
    /\ Count(i) = 0 => Len(View(i).particles) = 0
    /\ (Count(i) = 0 /\ Mounted(i)) => Len(child[i][1].particles) = 0
    /\ Count(i) >= 200 => Len(View(i).particles) = 10
    /\ (Count(i) >= 200 /\ Mounted(i)) => Len(child[i][1].particles) = 50
C4_CountsMonotone(i) ==
  (Rendered(i) /\ Count(i) >= 0 /\ Count(i)' >= Count(i)) =>
    /\ Len(View(i)'.particles) >= Len(View(i).particles)
    /\ Mounted(i) => Len(child[i][1]'.particles) >= Len(child[i][1].particles)

\* C4: for every pledge count >= 0 a render pass generates exactly
\* floor(ratio * 50) 3D markers and floor(ratio * 10) overlay markers: 0 and 0
\* for count 0, 50 and 10 for every count >= 200, never fewer for a larger
\* count.
C4_MarkerCounts ==
  /\ [](\A i \in Instances : C4_CountsValue(i))
  /\ [][\A i \in Instances : C4_CountsMonotone(i)]_vars

\* C5: the animator is stateless: after any sequence of frame callbacks the
\* group's scale and Y rotation are those of the elapsed time t of the latest
\* callback, 1 + sin(0.5 t) * 0.1 and sin(0.2 t) * 0.1; at t = 0 they are 1
\* and 0 whatever frames came before.
C5_Stateless ==
  \A i \in Instances :
    elapsed[i] # None =>
      /\ transform[i].scale = 1000000 + Math_sin(5 * elapsed[i][1])
      /\ transform[i].rotationY = Math_sin(2 * elapsed[i][1])
      /\ elapsed[i][1] = 0 => transform[i] = [scale |-> 1000000, rotationY |-> 0]
C5_Witness ==
  /\ frames["A"] = 2 /\ elapsed["A"] = Some(3)
  /\ transform["A"].scale > 1000000 /\ transform["A"].rotationY > 0

\* C6 (as claimed): two render passes with the same pledge count produce the
\* same overlay, the style of every floating marker included.
C6_OverlayPure ==
  [][\A i \in Instances :
       (Rendered(i) /\ pledgeCount[i]' = pledgeCount[i]) => overlay[i]' = overlay[i]]_vars

\* an overlay without the animation durations of its markers
Placement(p) == [left |-> p.left, top |-> p.top, animationDelay |-> p.animationDelay]
Stable(view) ==
  [caption |-> view.caption, barWidth |-> view.barWidth, messages |-> view.messages,
   particles |-> [k \in 1..Len(view.particles) |-> Placement(view.particles[k])]]
C6_Linear(i) ==
  Rendered(i) =>
    \A k \in 1..Len(View(i).particles) :
      /\ View(i).particles[k].left = 10 + 8 * (k - 1)
      /\ View(i).particles[k].top = 15 + 6 * (k - 1)

\* C6 (amended): two render passes with the same pledge count produce the
\* same caption, bar width, status message and number of floating markers,
\* and the same position and animation delay for each marker, the position
\* being a linear function of the marker index; the animation duration of a
\* marker is drawn at random in every pass.
C6_OverlayPureButDuration ==
  /\ [](\A i \in Instances : C6_Linear(i))
  /\ [][\A i \in Instances :
          (Rendered(i) /\ pledgeCount[i]' = pledgeCount[i])
            => Stable(View(i)') = Stable(View(i))]_vars
C6_Witness ==
  /\ Rendered("A") /\ passes["A"] = 2 /\ Len(View("A").particles) >= 2
  /\ View("A").particles[1].animationDuration # View("A").particles[2].animationDuration

\* C7: the ratio is clamped to [0, 1] on both sides: for every integer pledge
\* count it lies in [0, 1], and a negative count yields ratio 0.
C7_ClampedBothSides ==
  \A i \in Instances :
    Rendered(i) =>
      /\ View(i).fillLevel \in 0..200
      /\ Count(i) < 0 => View(i).fillLevel = 0

\* C8: after any sequence of pledge-count changes, once the render pass and
\* its effect have run, every mesh material of the displayed asset carries
\* the colour and opacity of the current ratio (opacity in [0.8, 1]) and is
\* flagged transparent.
C8_MaterialsCurrent ==
  \A i \in Instances :
    (Mounted(i) /\ effectQueue[i] = None) =>
      /\ Displayed(i) # {}
      /\ ShowsFill(i, View(i).fillLevel)
      /\ Count(i) >= 0 => \A m \in Displayed(i) : materials[m].opacity \in 800..1000
C8_Witness ==
  /\ Mounted("A") /\ effectQueue["A"] = None /\ passes["A"] = 1
  /\ Count("A") = 0 /\ frames["A"] = 2
  /\ \A m \in Displayed("A") : materials[m].opacity = 800

\* C9: the displayed percentage and status message agree at the breakpoints:
\* 100% exactly when the message is "complete", and at least 25, 50 or 75
\* percent only with the message of tier growing, halfway or almost-full, or
\* of a higher tier.
C9_PercentAgreesWithTier ==
  \A i \in Instances :
    (Rendered(i) /\ Count(i) >= 0) =>
      LET pct == View(i).caption.percent
          msg == View(i).messages
      IN /\ pct = 100 <=> msg = {"complete"}
         /\ pct >= 25 => msg \subseteq {"growing", "halfway", "almostFull", "complete"}
         /\ pct >= 50 => msg \subseteq {"halfway", "almostFull", "complete"}
         /\ pct >= 75 => msg \subseteq {"almostFull", "complete"}

\* C10: two instances mounted at the same time do not interfere: once the
\* effects of both have run, the asset each displays carries the colour and
\* opacity of its own ratio.
C10_NoInterference ==
  (\A j \in Instances : Mounted(j) /\ effectQueue[j] = None) =>
    \A i \in Instances : ShowsFill(i, View(i).fillLevel)
====
